---- MODULE Spec2Model ----
(***************************************************************************)
(* Model of the Easemob push client's request-execution substrate:         *)
(* the fixed-window limiter (a buffered channel drained by a background    *)
(* goroutine on every tick of a time.Ticker), the RWMutex-guarded token    *)
(* cache with its lazy refresh, and the lifecycle operations SetLimiter    *)
(* and Close.                                                              *)
(*                                                                         *)
(* Goroutines are interleaved at the granularity of their accesses to      *)
(* shared memory and of their channel operations.  getLimiter and the      *)
(* limiter goroutine read eb.limiterChan / eb.limiterResetTicker without   *)
(* holding eb.mu, so each such read is a step of its own and may fall      *)
(* before or after a concurrent SetLimiter write.  A section of code that   *)
(* runs between eb.mu.RLock() and the matching RUnlock() is one step.       *)
(*                                                                         *)
(* Channels and tickers are heap objects; the k-th object created is       *)
(* named k (0: the pair made by NewEasemob, k >= 1: the pair made by the   *)
(* k-th SetLimiter call).  A ticker's period is abstracted: a running      *)
(* ticker may fire at any moment.                                          *)
(***************************************************************************)
EXTENDS Integers, FiniteSets

\* ------------------------------------------------------------------ bounds
MaxOps == 3        \* operations the callers start, in total
MaxOpsMu == 2      \* the same, where every operation and every goroutine is interleaved (SpecMu)
MaxSet == 1        \* SetLimiter calls, in total
MaxRate == 2       \* SetLimiter is called with rate in 0..MaxRate
MaxTime == 2       \* the clock runs from 1 to MaxTime
MaxExpiresIn == 1  \* the credential exchange answers expires_in in 0..MaxExpiresIn
MaxLen == 2        \* NewEasemob is called with identifiers of length 0..MaxLen
MaxTimeout == 1    \* SetClientTimeout is called with a timeout in 0..MaxTimeout
MaxTtl == 1        \* RefreshToken is called with ttl in 0..MaxTtl
MaxInterval == 1   \* SetLimiter is called with interval in -1..MaxInterval

Callers == {1, 2}
ObjIds == 0..MaxSet
Rates == 0..MaxRate
Intervals == -1..MaxInterval
NoOne == 0
NoToken == 0
ZeroTime == 0
InitialRate == 1
NoObject == -1
\* NewEasemob's five string parameters
Idents == {"host", "orgName", "appName", "clientId", "clientSecret"}

VARIABLES
  pc,        \* pc[p]: where caller p is
  ctxt,      \* ctxt[p]: "base" | "access" | "refresh": which call frame runs getLimiter / GetBaseClient
  top,       \* top[p]: the function p called: "base" | "access" | "refresh", "none" outside these
  ttl,       \* ttl[p]: the argument ttl of the RefreshToken call p is in
  cch,       \* cch[p]: the channel caller p's getLimiter has read and sends on
  res,       \* res[p]: result of p's last operation
  bearer,    \* bearer[p]: token attached to the handle p's last GetAccessClient returned
  attempts,  \* attempts[p]: RefreshToken calls p's current GetAccessClient has made
  respTok,   \* respTok[p]: access_token of the response p is about to install
  respExp,   \* respExp[p]: expires_in of that response
  ops,       \* operations the callers may still start
  writer,    \* eb.mu: the goroutine holding the write lock, or NoOne
  readers,   \* eb.mu: the goroutines holding the read lock between two steps
  limiterResetTicker,  \* eb.limiterResetTicker (object name)
  limiterChan,         \* eb.limiterChan (object name)
  chCap, chLen, chClosed,   \* the channel objects
  tPend, tStopped,          \* the ticker objects: a tick buffered in .C, Stop() called
  lpc, ltick, li, lch,      \* the limiter goroutine: position, ticker it selects on, i, channel it receives from
  accessToken, accessTokenExpiresAt,
  now,       \* time.Now()
  issued,    \* tokens the credential exchange has issued
  panicked,  \* an unrecovered panic has ended the process
  closeCalled,
  params,    \* params[x]: len() of the identifier x NewEasemob was called with
  made,      \* NewEasemob: "pending" (not called yet) | "client" (returned eb, nil) | "error" (returned nil, err)
  clientTimeout, \* the timeout of eb.client (0: as ureq.New() made it)
  expiresFrom, \* history: the token whose expires_in eb.accessTokenExpiresAt was computed from
  cachedTtl, \* history: the ttl the RefreshToken call that stored eb.accessToken was called with
  taken,     \* history: taken[p]: getLimiter calls of p's current operation that returned nil
  sinceAdm,  \* history: sinceAdm[p]: a ticker fired, a tick was taken or the limiter goroutine
             \* completed a receive since p's current GetAccessClient got past its own getLimiter
  window,    \* history: acquires admitted since the last tick (fired or taken) or reconfiguration
  staleTick, \* history: the last tick was taken, after a SetLimiter call had returned,
             \* from the ticker that call replaced
  ticked,    \* history: ticked[p]: a ticker fired or a tick was taken since p issued its acquire
  wasBlocked, \* history: wasBlocked[p]: p's last operation returned from a getLimiter that was
             \* blocked in its select
  postClose  \* history: postClose[p]: Close had closed eb.limiterChan when p issued its current
             \* acquire, or closed it while that acquire was blocked on it

callerVars == <<pc, ctxt, top, ttl, cch, res, bearer, attempts, respTok, respExp, ops>>
chanVars == <<limiterChan, chCap, chLen, chClosed>>
tickVars == <<limiterResetTicker, tPend, tStopped>>
loopVars == <<lpc, ltick, li, lch>>
tokVars == <<accessToken, accessTokenExpiresAt, issued, expiresFrom, cachedTtl>>
histVars == <<window, staleTick, ticked, taken, sinceAdm, wasBlocked, postClose>>
vars == <<callerVars, writer, readers, chanVars, tickVars, loopVars, tokVars, histVars, now,
          panicked, closeCalled, params, made, clientTimeout>>

\* The zero values of everything NewEasemob does not set, before any caller has
\* started an operation.
Fresh ==
  /\ pc = [p \in Callers |-> "idle"]
  /\ ctxt = [p \in Callers |-> "base"]
  /\ top = [p \in Callers |-> "none"]
  /\ ttl = [p \in Callers |-> 0]
  /\ cch = [p \in Callers |-> 0]
  /\ res = [p \in Callers |-> "none"]
  /\ bearer = [p \in Callers |-> NoToken]
  /\ attempts = [p \in Callers |-> 0]
  /\ respTok = [p \in Callers |-> NoToken]
  /\ respExp = [p \in Callers |-> 0]
  /\ writer = NoOne
  /\ readers = {}
  /\ chLen = [c \in ObjIds |-> 0]
  /\ chClosed = [c \in ObjIds |-> FALSE]
  /\ tPend = [t \in ObjIds |-> FALSE]
  /\ tStopped = [t \in ObjIds |-> FALSE]
  /\ ltick = 0
  /\ li = 0
  /\ lch = 0
  /\ accessToken = NoToken
  /\ accessTokenExpiresAt = ZeroTime
  /\ now = 1
  /\ issued = 0
  /\ panicked = FALSE
  /\ closeCalled = FALSE
  /\ clientTimeout = 0
  /\ expiresFrom = NoToken
  /\ cachedTtl = 0
  /\ taken = [p \in Callers |-> 0]
  /\ sinceAdm = [p \in Callers |-> FALSE]
  /\ window = 0
  /\ staleTick = FALSE
  /\ ticked = [p \in Callers |-> FALSE]
  /\ wasBlocked = [p \in Callers |-> FALSE]
  /\ postClose = [p \in Callers |-> FALSE]

\* NewEasemob (called with five non-empty identifiers): the state it returns,
\* with the limiter goroutine started and about to enter its loop.
Constructed ==
  /\ Fresh
  /\ params = [x \in Idents |-> 1]
  /\ made = "client"
  /\ limiterResetTicker = 0
  /\ limiterChan = 0
  /\ chCap = [c \in ObjIds |-> IF c = 0 THEN InitialRate ELSE 0]
  /\ lpc = "enter"

\* The client as NewEasemob returned it, its callers about to start MaxOps operations.
Init == Constructed /\ ops = MaxOps

\* The same client, its callers about to start MaxOpsMu operations.
InitMu == Constructed /\ ops = MaxOpsMu

\* Before NewEasemob is called, with any five identifiers: no client, no
\* ticker, no channel, no limiter goroutine.
InitNew ==
  /\ Fresh
  /\ params \in [Idents -> 0..MaxLen]
  /\ made = "pending"
  /\ ops = MaxOps
  /\ limiterResetTicker = NoObject
  /\ limiterChan = NoObject
  /\ chCap = [c \in ObjIds |-> 0]
  /\ lpc = "none"

\* A faulty variant of InvalidParams: only five empty identifiers are rejected.
InvalidParamsAll(a) == \A x \in Idents : a[x] < 1

\* NewEasemob's validation: len(host) < 1 || len(orgName) < 1 || len(appName) < 1
\* || len(clientId) < 1 || len(clientSecret) < 1.
InvalidParams(a) == \E x \in Idents : a[x] < 1

\* NewEasemob: with an invalid parameter it returns nil and an error before
\* anything is built; otherwise it builds the client with its ticker and its
\* channel of capacity 1, starts `go eb.limiter()` and returns the client.
NewEasemob ==
  /\ made = "pending"
  /\ IF InvalidParams(params)
     THEN /\ made' = "error"
          /\ UNCHANGED <<limiterResetTicker, limiterChan, chCap, lpc>>
     ELSE /\ made' = "client"
          /\ limiterResetTicker' = 0
          /\ limiterChan' = 0
          /\ chCap' = [chCap EXCEPT ![0] = InitialRate]
          /\ lpc' = "enter"
  /\ UNCHANGED <<callerVars, writer, readers, chLen, chClosed, tPend, tStopped, ltick, li, lch,
                 tokVars, histVars, now, panicked, closeCalled, params, clientTimeout>>

\* ------------------------------------------------------------------- eb.mu
\* eb.mu.Lock() can return: no goroutine holds the lock.
Lockable == writer = NoOne /\ readers = {}

\* eb.mu.RLock() can return: no goroutine holds the write lock.
RLocked == writer = NoOne

\* A faulty variant of RUnlocked: the read lock is kept.
RUnlockSkipped(held, p) == held

\* eb.mu.RUnlock() by goroutine p, the goroutines in held holding the read
\* lock: those that hold it afterwards.
RUnlocked(held, p) == held \ {p}

\* ------------------------------------------------------------ the channels
\* The limiter goroutine is blocked in <-ch on channel c (empty and open).
LoopParkedOn(c) == lpc = "parked" /\ lch = c

\* The callers blocked in the send of getLimiter's select on channel c.
ParkedSenders(c) == {q \in Callers : pc[q] = "parked" /\ cch[q] = c}

\* The senders a receive on channel c can take a value from: close(c) has
\* taken every blocked sender off c, to panic when it runs next.
WaitingSenders(c) == IF chClosed[c] THEN {} ELSE ParkedSenders(c)

\* getLimiter's case `eb.limiterChan <- true` can proceed on channel c: there is
\* room in the buffer, or a receiver is waiting, or c is closed (the send panics).
SendReady(c) == chClosed[c] \/ LoopParkedOn(c) \/ chLen[c] < chCap[c]

\* Caller p's GetAccessClient is past its own getLimiter and has not returned.
PastAdmission(p) ==
  pc[p] \in {"a_check", "a_ret"} \/ (top[p] = "access" /\ ctxt[p] = "refresh")

\* The history variable sinceAdm after a tick or a completed receive.
Noted == [p \in Callers |-> sinceAdm[p] \/ PastAdmission(p)]


\* getLimiter's send on channel c completes (and getLimiter returns nil): it
\* can proceed and c is open.
SendCompletes(c) == SendReady(c) /\ ~chClosed[c]

\* A faulty variant of AfterAcquire: GetBaseClient tests the token too.
AfterAcquireChecked(f) == "a_check"

\* Where a caller continues once getLimiter has returned nil: GetAccessClient
\* goes on to its token check, GetBaseClient to its RLock.
AfterAcquire(f) == IF f = "access" THEN "a_check" ELSE "rlock"

\* The history variables after caller p has been admitted.
Admitted(p) ==
  /\ window' = window + 1
  /\ ticked' = [ticked EXCEPT ![p] = FALSE]
  /\ taken' = [taken EXCEPT ![p] = taken[p] + 1]
  /\ UNCHANGED <<staleTick, wasBlocked, postClose>>

\* ------------------------------------------------------- the reset clock
\* A running ticker fires: a tick is buffered in its channel C (capacity 1; a
\* tick that finds the buffer full is dropped).  Only the ticker the limiter
\* goroutine selects on and the one eb.limiterResetTicker names can ever be
\* received from again.
Tick(t) ==
  /\ ~panicked
  /\ ~tStopped[t]
  /\ t = limiterResetTicker \/ (lpc = "select" /\ t = ltick)
  /\ tPend' = [tPend EXCEPT ![t] = TRUE]
  /\ window' = 0
  /\ ticked' = [p \in Callers |-> ticked[p] \/ pc[p] \in {"acq", "sel", "parked"}]
  /\ sinceAdm' = Noted
  /\ UNCHANGED <<callerVars, writer, readers, chanVars, limiterResetTicker, tStopped, loopVars,
                 tokVars, staleTick, taken, wasBlocked, postClose, now, panicked, closeCalled, params, made, clientTimeout>>

\* time passes
Advance ==
  /\ ~panicked
  /\ now < MaxTime
  /\ now' = now + 1
  /\ UNCHANGED <<callerVars, writer, readers, chanVars, tickVars, loopVars, tokVars, histVars,
                 panicked, closeCalled, params, made, clientTimeout>>

\* --------------------------------------------------- the limiter goroutine
\* Entering the select: `eb.limiterResetTicker.C` is evaluated (no lock held).
LoopEnter ==
  /\ ~panicked
  /\ lpc = "enter"
  /\ lpc' = "select"
  /\ ltick' = limiterResetTicker
  /\ UNCHANGED <<callerVars, writer, readers, chanVars, tickVars, li, lch, tokVars, histVars,
                 now, panicked, closeCalled, params, made, clientTimeout>>

\* case <-eb.limiterResetTicker.C: the tick is taken and the drain loop starts (i := 0).
LoopTick ==
  /\ ~panicked
  /\ lpc = "select"
  /\ tPend[ltick]
  /\ tPend' = [tPend EXCEPT ![ltick] = FALSE]
  /\ lpc' = "cond"
  /\ li' = 0
  /\ window' = 0
  /\ staleTick' = (ltick < limiterChan)
  /\ ticked' = [p \in Callers |-> ticked[p] \/ pc[p] \in {"acq", "sel", "parked"}]
  /\ sinceAdm' = Noted
  /\ UNCHANGED <<callerVars, writer, readers, chanVars, limiterResetTicker, tStopped, ltick, lch,
                 tokVars, taken, wasBlocked, postClose, now, panicked, closeCalled, params, made, clientTimeout>>

\* The drain loop's condition, i < cap(eb.limiterChan), on channel c.
DrainMore(i, c) == i < chCap[c]

\* `i < cap(eb.limiterChan)`: eb.limiterChan is read (no lock held).
LoopCond ==
  /\ ~panicked
  /\ lpc = "cond"
  /\ lpc' = IF DrainMore(li, limiterChan) THEN "load" ELSE "enter"
  /\ UNCHANGED <<callerVars, writer, readers, chanVars, tickVars, ltick, li, lch, tokVars, histVars,
                 now, panicked, closeCalled, params, made, clientTimeout>>

\* `<-eb.limiterChan`, the operand: eb.limiterChan is read again (no lock held).
LoopLoad ==
  /\ ~panicked
  /\ lpc = "load"
  /\ lpc' = "recv"
  /\ lch' = limiterChan
  /\ UNCHANGED <<callerVars, writer, readers, chanVars, tickVars, ltick, li, tokVars, histVars,
                 now, panicked, closeCalled, params, made, clientTimeout>>

\* `<-eb.limiterChan`, the receive, on the channel that was read.  With a sender
\* blocked on the channel the receive takes the oldest buffered value (or,
\* unbuffered, the sender's) and completes that send; with the channel empty
\* and open the goroutine blocks.
LoopRecv ==
  /\ ~panicked
  /\ lpc = "recv"
  /\ LET c == lch IN
     /\ IF WaitingSenders(c) # {}
        THEN \E q \in WaitingSenders(c) :
               /\ pc' = [pc EXCEPT ![q] = AfterAcquire(ctxt[q])]
               /\ Admitted(q)
               /\ sinceAdm' = Noted
               /\ lpc' = "cond" /\ li' = li + 1
               /\ UNCHANGED chLen
        ELSE IF chLen[c] > 0
        THEN /\ chLen' = [chLen EXCEPT ![c] = chLen[c] - 1]
             /\ sinceAdm' = Noted
             /\ lpc' = "cond" /\ li' = li + 1
             /\ UNCHANGED <<pc, window, staleTick, ticked, taken, wasBlocked, postClose>>
        ELSE IF chClosed[c]
        THEN /\ lpc' = "cond" /\ li' = li + 1
             /\ sinceAdm' = Noted
             /\ UNCHANGED <<pc, chLen, window, staleTick, ticked, taken, wasBlocked, postClose>>
        ELSE /\ lpc' = "parked"
             /\ UNCHANGED <<pc, chLen, li, histVars>>
  /\ UNCHANGED <<ctxt, top, ttl, cch, res, bearer, attempts, respTok, respExp, ops, writer, readers,
                 limiterChan, chCap, chClosed, tickVars, ltick, lch, tokVars,
                 now, panicked, closeCalled, params, made, clientTimeout>>

\* The channel the goroutine is blocked on has been closed: the receive
\* returns the zero value.
LoopWake ==
  /\ ~panicked
  /\ lpc = "parked"
  /\ chClosed[lch]
  /\ lpc' = "cond"
  /\ li' = li + 1
  /\ sinceAdm' = Noted
  /\ UNCHANGED <<callerVars, writer, readers, chanVars, tickVars, ltick, lch, tokVars, window,
                 staleTick, ticked, taken, wasBlocked, postClose, now, panicked, closeCalled, params, made, clientTimeout>>

\* ------------------------------------------------------------- the callers
\* A caller's operation returns r: its frame is popped (and the history of the
\* operation is dropped).
Return(p, r) ==
  /\ taken' = [taken EXCEPT ![p] = 0]
  /\ sinceAdm' = [sinceAdm EXCEPT ![p] = FALSE]
  /\ wasBlocked' = [wasBlocked EXCEPT ![p] = (pc[p] = "parked")]
  /\ postClose' = [postClose EXCEPT ![p] = FALSE]
  /\ pc' = [pc EXCEPT ![p] = "idle"]
  /\ res' = [res EXCEPT ![p] = r]
  /\ ctxt' = [ctxt EXCEPT ![p] = "base"]
  /\ top' = [top EXCEPT ![p] = "none"]
  /\ ttl' = [ttl EXCEPT ![p] = 0]
  /\ cch' = [cch EXCEPT ![p] = 0]
  /\ respTok' = [respTok EXCEPT ![p] = NoToken]
  /\ respExp' = [respExp EXCEPT ![p] = 0]

\* Close has closed a Permit Pool (Close is the only code that closes one).
PoolClosed == \E c \in ObjIds : chClosed[c]

\* Caller p enters GetBaseClient ("base"), GetAccessClient ("access") or
\* RefreshToken ("refresh") with ttl = t; each begins with getLimiter(ctx),
\* RefreshToken's through its call of GetBaseClient.
Enter(p, f, t) ==
  /\ ops > 0
  /\ ops' = ops - 1
  /\ pc' = [pc EXCEPT ![p] = "acq"]
  /\ ctxt' = [ctxt EXCEPT ![p] = f]
  /\ top' = [top EXCEPT ![p] = f]
  /\ ttl' = [ttl EXCEPT ![p] = t]
  /\ res' = [res EXCEPT ![p] = "none"]
  /\ bearer' = [bearer EXCEPT ![p] = NoToken]
  /\ attempts' = [attempts EXCEPT ![p] = 0]
  /\ ticked' = [ticked EXCEPT ![p] = FALSE]
  /\ taken' = [taken EXCEPT ![p] = 0]
  /\ sinceAdm' = [sinceAdm EXCEPT ![p] = FALSE]
  /\ wasBlocked' = [wasBlocked EXCEPT ![p] = FALSE]
  /\ postClose' = [postClose EXCEPT ![p] = PoolClosed]
  /\ UNCHANGED <<cch, respTok, respExp, writer, readers, chanVars, tickVars, loopVars, tokVars,
                 window, staleTick, now, panicked, closeCalled, params, made, clientTimeout>>

\* A caller calls GetBaseClient(ctx) or GetAccessClient(ctx).
Call(p, f) ==
  /\ ~panicked
  /\ pc[p] = "idle"
  /\ Enter(p, f, 0)

\* A caller calls RefreshToken(ctx, t).
CallRefresh(p, t) ==
  /\ ~panicked
  /\ pc[p] = "idle"
  /\ Enter(p, "refresh", t)

\* What a send that proceeds on channel c leaves in c's buffer: the value is
\* handed to a waiting receiver, or else buffered.
LenAfterSend(c) == IF LoopParkedOn(c) THEN chLen[c] ELSE chLen[c] + 1

\* getLimiter, entering the select: the operand eb.limiterChan of the send
\* case is read (no lock held).
AcqLoad(p) ==
  /\ ~panicked
  /\ pc[p] = "acq"
  /\ pc' = [pc EXCEPT ![p] = "sel"]
  /\ cch' = [cch EXCEPT ![p] = limiterChan]
  /\ UNCHANGED <<ctxt, top, ttl, res, bearer, attempts, respTok, respExp, ops, writer, readers, chanVars,
                 tickVars, loopVars, tokVars, histVars, now, panicked, closeCalled, params, made, clientTimeout>>

\* getLimiter, the send case proceeding at once on the channel that was read:
\* the send completes and getLimiter returns nil.
AcqSend(p) ==
  /\ ~panicked
  /\ pc[p] = "sel"
  /\ LET c == cch[p] IN
     /\ SendCompletes(c)
     /\ chLen' = [chLen EXCEPT ![c] = LenAfterSend(c)]
     /\ IF LoopParkedOn(c)
        THEN lpc' = "cond" /\ li' = li + 1 /\ sinceAdm' = Noted
        ELSE UNCHANGED <<lpc, li, sinceAdm>>
  /\ pc' = [pc EXCEPT ![p] = AfterAcquire(ctxt[p])]
  /\ Admitted(p)
  /\ UNCHANGED <<ctxt, top, ttl, cch, res, bearer, attempts, respTok, respExp, ops, writer, readers,
                 limiterChan, chCap, chClosed, tickVars, ltick, lch, tokVars,
                 now, panicked, closeCalled, params, made, clientTimeout>>

\* getLimiter's send is chosen on a closed channel, or the channel was closed
\* while the send was blocked on it and the goroutine runs again: the
\* goroutine panics, and nothing recovers it.
AcqPanic(p) ==
  /\ ~panicked
  /\ pc[p] \in {"sel", "parked"}
  /\ chClosed[cch[p]]
  /\ panicked' = TRUE
  /\ UNCHANGED <<callerVars, writer, readers, chanVars, tickVars, loopVars, tokVars, histVars,
                 now, closeCalled, params, made, clientTimeout>>

\* getLimiter finds neither case ready and blocks in the select, its send
\* queued on the channel it read.
AcqPark(p) ==
  /\ ~panicked
  /\ pc[p] = "sel"
  /\ ~SendReady(cch[p])
  /\ pc' = [pc EXCEPT ![p] = "parked"]
  /\ UNCHANGED <<ctxt, top, ttl, cch, res, bearer, attempts, respTok, respExp, ops, writer, readers, chanVars,
                 tickVars, loopVars, tokVars, histVars, now, panicked, closeCalled, params, made, clientTimeout>>

\* A faulty variant of LenAfterCancel: the cancelled caller's value is buffered
\* all the same.
LenAfterCancelLeak(c) == chLen[c] + 1

\* What getLimiter's case <-ctx.Done() leaves in channel c's buffer.
LenAfterCancel(c) == chLen[c]

\* getLimiter, case <-ctx.Done(): the context is done when the select is
\* entered and that case is chosen, or it is cancelled while the caller is
\* blocked on an open channel (a close that came first has already woken the
\* send).  getLimiter returns ctx.Err(), which every frame above returns.
AcqCancel(p) ==
  /\ ~panicked
  /\ pc[p] = "sel" \/ (pc[p] = "parked" /\ ~chClosed[cch[p]])
  /\ chLen' = [chLen EXCEPT ![cch[p]] = LenAfterCancel(cch[p])]
  /\ Return(p, "cancelled")
  /\ ticked' = [ticked EXCEPT ![p] = FALSE]
  /\ UNCHANGED <<bearer, attempts, ops, writer, readers, limiterChan, chCap, chClosed, tickVars,
                 loopVars, tokVars, window, staleTick, now, panicked, closeCalled,
                 params, made, clientTimeout>>

\* ---------------------------------------------------------------- SetLimiter
\* time.NewTicker(d) panics ("non-positive interval for NewTicker") when d <= 0.
TickerPanics(d) == d <= 0

\* SetLimiter(rate, interval): eb.mu.Lock(), then
\* eb.limiterResetTicker = time.NewTicker(interval).  A non-positive interval
\* makes NewTicker panic: the deferred Unlock runs, nothing has been assigned,
\* and the panic, which nothing recovers, ends the process.  Otherwise the
\* new ticker is stored; the ticker it replaces is not stopped.
SetLimiterTicker(p, interval) ==
  /\ ~panicked
  /\ pc[p] = "idle"
  /\ ops > 0
  /\ Lockable
  /\ ops' = ops - 1
  /\ IF TickerPanics(interval)
     THEN /\ panicked' = TRUE
          /\ UNCHANGED <<writer, limiterResetTicker, pc, res>>
     ELSE /\ limiterResetTicker < MaxSet
          /\ writer' = p
          /\ limiterResetTicker' = limiterResetTicker + 1
          /\ pc' = [pc EXCEPT ![p] = "sl_chan"]
          /\ res' = [res EXCEPT ![p] = "none"]
          /\ UNCHANGED panicked
  /\ UNCHANGED <<ctxt, top, ttl, cch, bearer, attempts, respTok, respExp, readers, chanVars,
                 tPend, tStopped, loopVars, tokVars, histVars, now, closeCalled, params, made, clientTimeout>>

\* SetLimiter: eb.limiterChan = make(chan bool, rate), then the deferred
\* eb.mu.Unlock().  (rate, SetLimiter's argument, is first used here.)
SetLimiterChan(p, rate) ==
  /\ ~panicked
  /\ pc[p] = "sl_chan"
  /\ limiterChan' = limiterResetTicker
  /\ chCap' = [chCap EXCEPT ![limiterResetTicker] = rate]
  /\ writer' = NoOne
  /\ pc' = [pc EXCEPT ![p] = "idle"]
  /\ res' = [res EXCEPT ![p] = "ok"]
  /\ window' = 0
  /\ UNCHANGED <<ctxt, top, ttl, cch, bearer, attempts, respTok, respExp, ops, readers, chLen,
                 chClosed, tickVars, loopVars, tokVars, staleTick, ticked, taken, wasBlocked, postClose, sinceAdm, now, panicked,
                 closeCalled, params, made, clientTimeout>>

\* ---------------------------------------------------------- SetClientTimeout
\* SetClientTimeout: eb.mu.Lock(), eb.client = eb.client.Timeout(d), and the
\* deferred eb.mu.Unlock().
SetClientTimeout(p, d) ==
  /\ ~panicked
  /\ pc[p] = "idle"
  /\ ops > 0
  /\ Lockable
  /\ ops' = ops - 1
  /\ clientTimeout' = d
  /\ res' = [res EXCEPT ![p] = "ok"]
  /\ UNCHANGED <<pc, ctxt, top, ttl, cch, bearer, attempts, respTok, respExp, writer, readers, chanVars,
                 tickVars, loopVars, tokVars, histVars, now, panicked, closeCalled, params, made>>

\* --------------------------------------------------------------------- Close
\* Close: eb.mu.Lock(), then eb.limiterResetTicker.Stop().  Stop leaves a tick
\* already buffered in the ticker's channel, or (newer runtimes) discards it.
CloseStop(p) ==
  /\ ~panicked
  /\ pc[p] = "idle"
  /\ ops > 0
  /\ ~closeCalled
  /\ Lockable
  /\ ops' = ops - 1
  /\ closeCalled' = TRUE
  /\ writer' = p
  /\ tStopped' = [tStopped EXCEPT ![limiterResetTicker] = TRUE]
  /\ \E keep \in BOOLEAN :
       tPend' = [tPend EXCEPT ![limiterResetTicker] = keep /\ tPend[limiterResetTicker]]
  /\ pc' = [pc EXCEPT ![p] = "c_close"]
  /\ res' = [res EXCEPT ![p] = "none"]
  /\ UNCHANGED <<ctxt, top, ttl, cch, bearer, attempts, respTok, respExp, readers, chanVars,
                 limiterResetTicker, loopVars, tokVars, histVars, now, panicked, params, made, clientTimeout>>

\* Close: close(eb.limiterChan).  The senders and the receiver blocked on the
\* channel are woken; each sender panics when it runs next.
CloseChan(p) ==
  /\ ~panicked
  /\ pc[p] = "c_close"
  /\ chClosed' = [chClosed EXCEPT ![limiterChan] = TRUE]
  /\ pc' = [pc EXCEPT ![p] = "c_exit"]
  /\ postClose' = [q \in Callers |-> postClose[q] \/ (pc[q] = "parked" /\ cch[q] = limiterChan)]
  /\ UNCHANGED <<ctxt, top, ttl, cch, res, bearer, attempts, respTok, respExp, ops, writer, readers,
                 limiterChan, chCap, chLen, tickVars, loopVars, tokVars, window, staleTick, ticked,
                 taken, sinceAdm, wasBlocked,
                 now, panicked, closeCalled, params, made, clientTimeout>>

\* Close: eb.exitCh <- struct{}{} on the unbuffered exit channel, which
\* completes when the limiter goroutine's select takes case <-eb.exitCh and
\* returns; then the deferred eb.mu.Unlock().
CloseExit(p) ==
  /\ ~panicked
  /\ pc[p] = "c_exit"
  /\ lpc = "select"
  /\ lpc' = "done"
  /\ writer' = NoOne
  /\ pc' = [pc EXCEPT ![p] = "idle"]
  /\ res' = [res EXCEPT ![p] = "ok"]
  /\ UNCHANGED <<ctxt, top, ttl, cch, bearer, attempts, respTok, respExp, ops, readers, chanVars,
                 tickVars, ltick, li, lch, tokVars, histVars, now, panicked, closeCalled, params, made, clientTimeout>>

\* --------------------------------------------------------------- GetBaseClient
\* GetBaseClient after getLimiter: eb.mu.RLock(), return eb.client.Clone(), nil
\* and the deferred RUnlock.  Called by a caller, the operation is over; called
\* by RefreshToken, that goes on to build its request.
BaseClone(p) ==
  /\ ~panicked
  /\ pc[p] = "rlock"
  /\ RLocked
  /\ IF ctxt[p] = "refresh"
     THEN /\ pc' = [pc EXCEPT ![p] = "rt_url"]
          /\ UNCHANGED <<ctxt, top, ttl, cch, res, respTok, respExp, taken, wasBlocked, postClose, sinceAdm>>
     ELSE Return(p, "ok")
  /\ UNCHANGED <<bearer, attempts, ops, writer, readers, chanVars, tickVars, loopVars, tokVars,
                 window, staleTick, ticked, now, panicked, closeCalled, params, made, clientTimeout>>

\* ------------------------------------------------------------- GetAccessClient
\* A faulty variant of NeedsRefresh: the comparison the other way round (After
\* for Before).
NeedsRefreshAfter(tok, exp, t) == t < exp \/ tok = NoToken

\* GetAccessClient's test of the cached token tok with expiry exp at time t:
\* eb.accessTokenExpiresAt.Before(time.Now()) || len(eb.accessToken) < 1.
NeedsRefresh(tok, exp, t) == exp < t \/ tok = NoToken

\* GetAccessClient after getLimiter: eb.mu.RLock() and the test.  With a token
\* that needs no refresh: return eb.client.Clone().Set("Authorization",
\* "Bearer "+eb.accessToken), nil and the deferred RUnlock.  Otherwise RUnlock
\* and RefreshToken(ctx, 0), which begins with GetBaseClient(ctx).
AccessCheck(p) ==
  /\ ~panicked
  /\ pc[p] = "a_check"
  /\ RLocked
  /\ IF NeedsRefresh(accessToken, accessTokenExpiresAt, now)
     THEN /\ pc' = [pc EXCEPT ![p] = "acq"]
          /\ ctxt' = [ctxt EXCEPT ![p] = "refresh"]
          /\ attempts' = [attempts EXCEPT ![p] = attempts[p] + 1]
          /\ ttl' = [ttl EXCEPT ![p] = 0]
          /\ postClose' = [postClose EXCEPT ![p] = PoolClosed]
          /\ UNCHANGED <<top, cch, res, bearer, respTok, respExp, taken, wasBlocked, sinceAdm>>
     ELSE /\ bearer' = [bearer EXCEPT ![p] = accessToken]
          /\ Return(p, "ok")
          /\ UNCHANGED attempts
  /\ readers' = RUnlocked(readers \cup {p}, p)
  /\ UNCHANGED <<ops, writer, chanVars, tickVars, loopVars, tokVars,
                 window, staleTick, ticked, now, panicked, closeCalled, params, made, clientTimeout>>

\* GetAccessClient after RefreshToken returned nil: eb.mu.RLock() again, then
\* return eb.client.Clone().Set("Authorization", "Bearer "+eb.accessToken), nil
\* and the deferred RUnlock.
AccessReturn(p) ==
  /\ ~panicked
  /\ pc[p] = "a_ret"
  /\ RLocked
  /\ bearer' = [bearer EXCEPT ![p] = accessToken]
  /\ Return(p, "ok")
  /\ UNCHANGED <<attempts, ops, writer, readers, chanVars, tickVars, loopVars, tokVars, window,
                 staleTick, ticked, now, panicked, closeCalled, params, made, clientTimeout>>

\* ---------------------------------------------------------------- RefreshToken
\* RefreshToken: eb.GetURL("token"), which takes and releases the read lock.
RefreshURL(p) ==
  /\ ~panicked
  /\ pc[p] = "rt_url"
  /\ RLocked
  /\ pc' = [pc EXCEPT ![p] = "rt_post"]
  /\ UNCHANGED <<ctxt, top, ttl, cch, res, bearer, attempts, respTok, respExp, ops, writer, readers,
                 chanVars, tickVars, loopVars, tokVars, histVars, now, panicked, closeCalled, params, made, clientTimeout>>

\* The ways the credential exchange fails: a transport error, a non-success
\* status, a body that does not decode, a blank access_token.
Failures == {"transport", "status", "json", "empty"}

\* A faulty variant of RefreshFail: the failed exchange is tried again.
RefreshFailRetry(p, f) ==
  /\ ~panicked
  /\ pc[p] = "rt_post"
  /\ pc' = [pc EXCEPT ![p] = "acq"]
  /\ attempts' = [attempts EXCEPT ![p] = attempts[p] + 1]
  /\ UNCHANGED <<ctxt, top, ttl, cch, res, bearer, respTok, respExp, ops, writer, readers, chanVars,
                 tickVars, loopVars, tokVars, histVars, now, panicked, closeCalled, params, made, clientTimeout>>

\* A faulty variant of RefreshFail: the failure evicts the cached token.
RefreshFailEvict(p, f) ==
  /\ ~panicked
  /\ pc[p] = "rt_post"
  /\ Return(p, "error")
  /\ accessToken' = NoToken
  /\ accessTokenExpiresAt' = ZeroTime
  /\ UNCHANGED <<bearer, attempts, ops, writer, readers, chanVars, tickVars, loopVars, issued,
                 expiresFrom, cachedTtl, window, staleTick, ticked, now, panicked, closeCalled, params, made, clientTimeout>>

\* RefreshToken: the POST fails in way f; the error is returned, and
\* GetAccessClient returns it wrapped.
RefreshFail(p, f) ==
  /\ ~panicked
  /\ pc[p] = "rt_post"
  /\ Return(p, "error")
  /\ UNCHANGED <<bearer, attempts, ops, writer, readers, chanVars, tickVars, loopVars, tokVars,
                 window, staleTick, ticked, now, panicked, closeCalled, params, made, clientTimeout>>

\* RefreshToken: the POST answers 200 with a fresh access_token and expires_in = e.
RefreshOK(p, e) ==
  /\ ~panicked
  /\ pc[p] = "rt_post"
  /\ issued' = issued + 1
  /\ respTok' = [respTok EXCEPT ![p] = issued + 1]
  /\ respExp' = [respExp EXCEPT ![p] = e]
  /\ pc' = [pc EXCEPT ![p] = "rt_lock"]
  /\ UNCHANGED <<ctxt, top, ttl, cch, res, bearer, attempts, ops, writer, readers, chanVars, tickVars,
                 loopVars, accessToken, accessTokenExpiresAt, expiresFrom, cachedTtl, histVars, now, panicked, closeCalled, params, made, clientTimeout>>

\* A faulty variant of RefreshLock: the token is stored without the lock.
RefreshNoLock(p) ==
  /\ ~panicked
  /\ pc[p] = "rt_lock"
  /\ accessToken' = respTok[p]
  /\ cachedTtl' = ttl[p]
  /\ pc' = [pc EXCEPT ![p] = "rt_exp"]
  /\ UNCHANGED <<ctxt, top, ttl, cch, res, bearer, attempts, respTok, respExp, ops, writer, readers,
                 chanVars, tickVars, loopVars, accessTokenExpiresAt, issued, expiresFrom, histVars,
                 now, panicked, closeCalled, params, made, clientTimeout>>

\* RefreshToken: eb.mu.Lock() and eb.accessToken = resp.AccessToken.
RefreshLock(p) ==
  /\ ~panicked
  /\ pc[p] = "rt_lock"
  /\ Lockable
  /\ writer' = p
  /\ accessToken' = respTok[p]
  /\ cachedTtl' = ttl[p]
  /\ pc' = [pc EXCEPT ![p] = "rt_exp"]
  /\ UNCHANGED <<ctxt, top, ttl, cch, res, bearer, attempts, respTok, respExp, ops, readers,
                 chanVars, tickVars, loopVars, accessTokenExpiresAt, issued, expiresFrom, histVars,
                 now, panicked, closeCalled, params, made, clientTimeout>>

\* The expiry RefreshToken stores at time t for expires_in = e:
\* time.Now().Add(time.Duration(resp.ExpiresIn) * time.Second).
ExpiryOf(t, e) == t + e

\* RefreshToken: eb.accessTokenExpiresAt = ..., the deferred Unlock, return nil:
\* to GetAccessClient, which goes on to its second RLock, or to the caller.
RefreshExpiry(p) ==
  /\ ~panicked
  /\ pc[p] = "rt_exp"
  /\ accessTokenExpiresAt' = ExpiryOf(now, respExp[p])
  /\ writer' = NoOne
  /\ expiresFrom' = respTok[p]
  /\ IF top[p] = "access"
     THEN /\ pc' = [pc EXCEPT ![p] = "a_ret"]
          /\ ctxt' = [ctxt EXCEPT ![p] = "access"]
          /\ UNCHANGED <<top, ttl, cch, res, respTok, respExp, taken, wasBlocked, postClose, sinceAdm>>
     ELSE Return(p, "ok")
  /\ UNCHANGED <<bearer, attempts, ops, readers, chanVars, tickVars, loopVars, accessToken,
                 issued, cachedTtl, window, staleTick, ticked, now, panicked, closeCalled,
                 params, made, clientTimeout>>

\* ------------------------------------------------------------ specification
Next ==
  \/ \E t \in ObjIds : Tick(t)
  \/ Advance
  \/ LoopEnter
  \/ LoopTick
  \/ LoopCond
  \/ LoopLoad
  \/ LoopRecv
  \/ LoopWake
  \/ \E p \in Callers : \E f \in {"base", "access"} : Call(p, f)
  \/ \E p \in Callers : \E t \in 0..MaxTtl : CallRefresh(p, t)
  \/ \E p \in Callers : AcqLoad(p)
  \/ \E p \in Callers : AcqSend(p)
  \/ \E p \in Callers : AcqPanic(p)
  \/ \E p \in Callers : AcqPark(p)
  \/ \E p \in Callers : AcqCancel(p)
  \/ \E p \in Callers : \E d \in Intervals : SetLimiterTicker(p, d)
  \/ \E p \in Callers : \E rate \in Rates : SetLimiterChan(p, rate)
  \/ \E p \in Callers : \E d \in 0..MaxTimeout : SetClientTimeout(p, d)
  \/ \E p \in Callers : CloseStop(p)
  \/ \E p \in Callers : CloseChan(p)
  \/ \E p \in Callers : CloseExit(p)
  \/ \E p \in Callers : BaseClone(p)
  \/ \E p \in Callers : AccessCheck(p)
  \/ \E p \in Callers : AccessReturn(p)
  \/ \E p \in Callers : RefreshURL(p)
  \/ \E p \in Callers : \E f \in Failures : RefreshFail(p, f)
  \/ \E p \in Callers : \E e \in 0..MaxExpiresIn : RefreshOK(p, e)
  \/ \E p \in Callers : RefreshLock(p)
  \/ \E p \in Callers : RefreshExpiry(p)

Spec == Init /\ [][Next]_vars

\* The limiter and the lifecycle alone: callers call GetBaseClient, SetLimiter
\* and Close; the token cache is not used and the clock is not read.
NextLimiter ==
  \/ \E t \in ObjIds : Tick(t)
  \/ LoopEnter
  \/ LoopTick
  \/ LoopCond
  \/ LoopLoad
  \/ LoopRecv
  \/ LoopWake
  \/ \E p \in Callers : Call(p, "base")
  \/ \E p \in Callers : AcqLoad(p)
  \/ \E p \in Callers : AcqSend(p)
  \/ \E p \in Callers : AcqPanic(p)
  \/ \E p \in Callers : AcqPark(p)
  \/ \E p \in Callers : AcqCancel(p)
  \/ \E p \in Callers : \E d \in Intervals : SetLimiterTicker(p, d)
  \/ \E p \in Callers : \E rate \in Rates : SetLimiterChan(p, rate)
  \/ \E p \in Callers : CloseStop(p)
  \/ \E p \in Callers : CloseChan(p)
  \/ \E p \in Callers : CloseExit(p)
  \/ \E p \in Callers : BaseClone(p)

SpecLimiter == Init /\ [][NextLimiter]_vars

\* The token cache behind the limiter as NewEasemob configures it: callers
\* call GetAccessClient and RefreshToken; nobody calls SetLimiter or Close.
NextToken ==
  \/ \E t \in ObjIds : Tick(t)
  \/ Advance
  \/ LoopEnter
  \/ LoopTick
  \/ LoopCond
  \/ LoopLoad
  \/ LoopRecv
  \/ \E p \in Callers : Call(p, "access")
  \/ \E p \in Callers : \E t \in 0..MaxTtl : CallRefresh(p, t)
  \/ \E p \in Callers : AcqLoad(p)
  \/ \E p \in Callers : AcqSend(p)
  \/ \E p \in Callers : AcqPark(p)
  \/ \E p \in Callers : AcqCancel(p)
  \/ \E p \in Callers : BaseClone(p)
  \/ \E p \in Callers : AccessCheck(p)
  \/ \E p \in Callers : AccessReturn(p)
  \/ \E p \in Callers : RefreshURL(p)
  \/ \E p \in Callers : \E f \in Failures : RefreshFail(p, f)
  \/ \E p \in Callers : \E e \in 0..MaxExpiresIn : RefreshOK(p, e)
  \/ \E p \in Callers : RefreshLock(p)
  \/ \E p \in Callers : RefreshExpiry(p)

SpecToken == Init /\ [][NextToken]_vars

\* The two client factories behind the limiter as NewEasemob configures it:
\* callers call GetBaseClient, GetAccessClient and RefreshToken.
NextClients ==
  \/ \E t \in ObjIds : Tick(t)
  \/ Advance
  \/ LoopEnter
  \/ LoopTick
  \/ LoopCond
  \/ LoopLoad
  \/ LoopRecv
  \/ \E p \in Callers : \E f \in {"base", "access"} : Call(p, f)
  \/ \E p \in Callers : \E t \in 0..MaxTtl : CallRefresh(p, t)
  \/ \E p \in Callers : AcqLoad(p)
  \/ \E p \in Callers : AcqSend(p)
  \/ \E p \in Callers : AcqPark(p)
  \/ \E p \in Callers : AcqCancel(p)
  \/ \E p \in Callers : BaseClone(p)
  \/ \E p \in Callers : AccessCheck(p)
  \/ \E p \in Callers : AccessReturn(p)
  \/ \E p \in Callers : RefreshURL(p)
  \/ \E p \in Callers : \E f \in Failures : RefreshFail(p, f)
  \/ \E p \in Callers : \E e \in 0..MaxExpiresIn : RefreshOK(p, e)
  \/ \E p \in Callers : RefreshLock(p)
  \/ \E p \in Callers : RefreshExpiry(p)

SpecClients == Init /\ [][NextClients]_vars

\* Every operation and every goroutine, as in Spec, the callers starting
\* MaxOpsMu operations.
SpecMu == InitMu /\ [][Next]_vars

\* Construction: NewEasemob is called with any five identifiers, and whatever
\* it has started runs; no caller uses the client.
NextNew ==
  \/ NewEasemob
  \/ \E t \in ObjIds : Tick(t)
  \/ LoopEnter
  \/ LoopTick
  \/ LoopCond
  \/ LoopLoad
  \/ LoopRecv

SpecNew == InitNew /\ [][NextNew]_vars

\* A step the limiter goroutine takes whenever it can: the Go scheduler runs
\* every runnable goroutine.
LoopStep == LoopEnter \/ LoopTick \/ LoopCond \/ LoopLoad \/ LoopRecv \/ LoopWake

\* A step caller p takes whenever it can, once inside an operation.  Starting
\* an operation and the cancellation of a context are the environment's choice.
CallerStep(p) ==
  \/ AcqLoad(p) \/ AcqSend(p) \/ AcqPanic(p) \/ AcqPark(p) \/ BaseClone(p)
  \/ \E rate \in Rates : SetLimiterChan(p, rate)
  \/ CloseChan(p) \/ CloseExit(p)

\* SpecLimiter with every goroutine scheduled and every running ticker firing
\* again and again.
FairLimiter ==
  /\ SpecLimiter
  /\ WF_vars(LoopStep)
  /\ \A t \in ObjIds : WF_vars(Tick(t))
  /\ \A p \in Callers : WF_vars(CallerStep(p))

\* ------------------------------------------------------------------ claims
\* Caller p's getLimiter returns nil in this step.
AdmittedStep(p) == pc[p] \in {"sel", "parked"} /\ pc'[p] \in {"rlock", "a_check"}

\* C1: the acquires admitted since the last reset tick (or since the limiter
\* was configured) never number more than the configured rate.
C1_WindowBound == window <= chCap[limiterChan]

\* C2: with a configured rate N >= 1, an acquire admitted after N acquires
\* have already been admitted since the last tick or (re)configuration has
\* seen a tick since it was issued.
C2_NextWaitsForTick ==
  [][\A p \in Callers :
       (AdmittedStep(p) /\ chCap[limiterChan] >= 1 /\ window >= chCap[limiterChan])
         => ticked[p]]_vars

\* Some channel made so far has capacity 0.
ZeroRate == \E c \in 0..limiterChan : chCap[c] = 0

\* C3: with every rate >= 1, no shutdown and no panic, an acquire whose
\* cancellation never fires eventually returns (with a cancellation never
\* fired, it returns nil).
C3_AcquireReturns ==
  \A p \in Callers :
    (pc[p] \in {"acq", "sel", "parked"})
      ~> (pc[p] \notin {"acq", "sel", "parked"} \/ closeCalled \/ ZeroRate \/ panicked)

\* C4: the reset of a tick never waits for further acquire calls: the limiter
\* goroutine is never blocked receiving from an empty pool.
C4_ResetNeverWaits == lpc # "parked"

\* C5: no permit is taken out of a pool on a tick taken, after SetLimiter had
\* returned, from the clock SetLimiter replaced when it installed that pool.
C5_NoRetiredTickDrains ==
  [][\A c \in ObjIds : chLen'[c] < chLen[c] => ~(staleTick /\ ltick < c)]_vars

\* C6: no acquire is admitted while a SetLimiter call is between replacing the
\* clock and replacing the pool.
C6_NoAdmissionMidSwap ==
  [][\A p \in Callers : AdmittedStep(p) => \A q \in Callers : pc[q] # "sl_chan"]_vars

\* C7: Close, once called, returns (unless the process has panicked).
C7_CloseReturns ==
  closeCalled ~> (panicked \/ \A p \in Callers : pc[p] \notin {"c_close", "c_exit"})

\* C8: a caller whose blocked acquire is cancelled gets the cancellation error,
\* is not counted as admitted, and leaves every pool's occupancy as it was.
C8_CancelLeavesPool ==
  [][\A p \in Callers :
       (pc[p] = "parked" /\ pc'[p] # "parked" /\ ~AdmittedStep(p))
         => (res'[p] = "cancelled" /\ chLen' = chLen /\ window' = window)]_vars

\* C8 witness: an acquire that was blocked on the full pool has been cancelled
\* and has returned the cancellation error; the pool (the only one there has
\* been, of capacity >= 1) is still full.
C8_Witness ==
  \E p \in Callers :
    /\ pc[p] = "idle" /\ res[p] = "cancelled" /\ wasBlocked[p]
    /\ limiterResetTicker = 0 /\ limiterChan = 0
    /\ chCap[0] >= 1
    /\ chLen[0] = chCap[0]

\* C9: a pool of capacity 0 never admits an acquire.
C9_ZeroRateNeverAdmits ==
  [][\A p \in Callers : AdmittedStep(p) => chCap[cch[p]] # 0]_vars

\* C10: GetAccessClient's check does not start a refresh when the cached token
\* is non-empty and its expiry is strictly after the current time.
C10_NoRefreshWhenValid ==
  [][\A p \in Callers :
       (pc[p] = "a_check" /\ accessToken # NoToken /\ accessTokenExpiresAt > now)
         => ctxt'[p] # "refresh"]_vars

\* C10 witness: a GetAccessClient call has returned a handle carrying a token
\* without calling RefreshToken.
C10_Witness ==
  \E p \in Callers :
    /\ pc[p] = "idle" /\ res[p] = "ok"
    /\ bearer[p] # NoToken /\ attempts[p] = 0

\* C11: a successful refresh leaves the newly issued token in the cache with
\* the expiry computed from the response, and a token obtained with ttl = 0
\* (GetAccessClient always asks for ttl = 0) never expires: no later check that
\* finds it in the cache starts a refresh.
C11_TtlZeroNeverExpires ==
  [][\A p \in Callers :
       /\ (pc[p] = "rt_exp" /\ pc'[p] # "rt_exp")
            => (accessToken' = respTok[p] /\ accessTokenExpiresAt' = now + respExp[p])
       /\ (pc[p] = "a_check" /\ accessToken # NoToken /\ cachedTtl = 0)
            => ctxt'[p] # "refresh"]_vars

\* C12: a GetAccessClient call that finds the cached token empty calls
\* RefreshToken once: not zero times, and no call ever calls it a second time,
\* whether the refresh succeeds or fails.
C12_OneRefreshAttempt ==
  [][\A p \in Callers :
       /\ (pc[p] = "a_check" /\ pc'[p] # "a_check" /\ accessToken = NoToken)
            => attempts'[p] = 1
       /\ (top[p] = "access" /\ ctxt[p] = "refresh" /\ pc'[p] = "idle") => attempts'[p] = 1
       /\ attempts'[p] <= 1]_vars

\* C12 witness: a GetAccessClient call that found the cache empty has returned
\* a handle after the one refresh there has been.
C12_Witness ==
  \E p \in Callers :
    /\ pc[p] = "idle" /\ res[p] = "ok"
    /\ attempts[p] = 1 /\ bearer[p] # NoToken /\ issued = 1

\* C13: a refresh that fails returns an error and leaves the cached token and
\* its expiry as they were; and a check that finds the token empty or expired
\* starts a refresh, whatever has failed before.
C13_FailedRefreshKeepsCache ==
  [][\A p \in Callers :
       /\ (pc[p] = "rt_post" /\ pc'[p] = "idle")
            => /\ res'[p] = "error"
               /\ accessToken' = accessToken
               /\ accessTokenExpiresAt' = accessTokenExpiresAt
       /\ (pc[p] = "a_check" /\ pc'[p] # "a_check"
             /\ (accessToken = NoToken \/ accessTokenExpiresAt < now))
            => ctxt'[p] = "refresh"]_vars

\* C13 witness: a refresh on an expired token has failed, the expired token is
\* still cached, and another refresh is under way.
C13_Witness ==
  \E p, q \in Callers :
    /\ pc[q] = "idle" /\ res[q] = "error" /\ attempts[q] = 1
    /\ accessToken # NoToken /\ accessTokenExpiresAt < now
    /\ ctxt[p] = "refresh" /\ pc[p] = "rt_post"

\* C14: the handle GetAccessClient returns carries the token cached at that
\* moment, and that token is non-empty with an expiry not before the time of
\* the return.
C14_ReturnedTokenValid ==
  [][\A p \in Callers :
       (pc[p] \in {"a_check", "a_ret"} /\ pc'[p] = "idle" /\ res'[p] = "ok")
         => /\ bearer'[p] = accessToken
            /\ accessToken # NoToken
            /\ accessTokenExpiresAt >= now]_vars

\* C15: NewEasemob fails exactly when one of its five identifiers is empty, and
\* then builds nothing and starts no limiter goroutine; otherwise it returns a
\* client whose one limiter goroutine is running.
C15_ConstructValidates ==
  made # "pending" =>
    /\ (made = "error") <=> (\E x \in Idents : params[x] = 0)
    /\ made = "error" => (lpc = "none" /\ limiterChan = NoObject /\ limiterResetTicker = NoObject)
    /\ made = "client" => lpc \in {"enter", "select", "cond", "load", "recv", "parked"}

\* C15 witness: NewEasemob has failed on an empty clientSecret, the other four
\* identifiers being non-empty.
C15_Witness ==
  /\ made = "error"
  /\ params["clientSecret"] = 0
  /\ \A x \in Idents \ {"clientSecret"} : params[x] > 0

\* C16: while a caller is inside GetBaseClient (called directly or by
\* RefreshToken) its steps leave the cached token and its expiry alone, start
\* no refresh and never reach the token check, and when GetBaseClient returns
\* its handle it has taken one permit (the second of a refreshing
\* GetAccessClient).
C16_BaseClientFrame ==
  [][\A p \in Callers :
       (ctxt[p] \in {"base", "refresh"} /\ pc[p] \in {"acq", "sel", "parked", "rlock"}
         /\ pc'[p] # pc[p])
         => /\ accessToken' = accessToken
            /\ accessTokenExpiresAt' = accessTokenExpiresAt
            /\ attempts'[p] = attempts[p]
            /\ pc'[p] \in {"sel", "parked", "rlock", "rt_url", "idle"}
            /\ pc[p] = "rlock"
                 => taken[p] = (IF top[p] = "access" /\ ctxt[p] = "refresh" THEN 2 ELSE 1)]_vars

\* C16 witness: with the cache empty, one caller's GetBaseClient has returned a
\* handle and another caller's RefreshToken has got its handle on the second
\* permit of its GetAccessClient.
C16_Witness ==
  \E p, q \in Callers :
    /\ pc[p] = "idle" /\ res[p] = "ok" /\ bearer[p] = NoToken
    /\ pc[q] = "rt_url" /\ taken[q] = 2
    /\ accessToken = NoToken

\* Caller p is inside RefreshToken, waiting for its permit or for the answer
\* of the credential exchange.
RefreshWaiting(p) == ctxt[p] = "refresh" /\ pc[p] \in {"acq", "sel", "parked", "rt_post"}

\* C17: a caller waiting inside a refresh holds eb.mu neither for reading nor
\* for writing, so that Lock() and RLock() can return unless another caller
\* holds the lock.
C17_RefreshHoldsNoLock ==
  \A p \in Callers :
    RefreshWaiting(p)
      => /\ writer # p
         /\ p \notin readers
         /\ (\A q \in Callers \ {p} : writer # q /\ q \notin readers) => (Lockable /\ RLocked)

\* C17 witness: while one caller's refresh waits for its permit, another
\* caller's SetLimiter holds the write lock.
C17_Witness ==
  \E p, q \in Callers :
    /\ RefreshWaiting(p) /\ pc[p] = "parked"
    /\ pc[q] = "sl_chan" /\ writer = q

\* C18: whenever the write lock is free the cached token and expiry are the
\* initial empty pair or were both written by one refresh, and a token once
\* set never becomes empty.
C18_PairInstalledTogether ==
  /\ [](writer = NoOne =>
          /\ expiresFrom = accessToken
          /\ accessToken = NoToken => accessTokenExpiresAt = ZeroTime)
  /\ [][accessToken # NoToken => accessToken' # NoToken]_vars

\* C18 witness: two refreshes have raced and both have installed their pair;
\* the token issued first was installed last.
C18_Witness ==
  /\ issued = 2 /\ writer = NoOne
  /\ accessToken = 1 /\ expiresFrom = 1
  /\ \A p \in Callers : pc[p] \notin {"rt_lock", "rt_exp"}

\* C19: a GetAccessClient call that returns a handle has taken one permit if
\* it did not refresh and two if it did; and with a pool of capacity 1, one
\* that refreshed returns only after a tick (or a receive of the limiter
\* goroutine) that came after its own admission.
C19_RefreshWaitsForTick ==
  [][\A p \in Callers :
       (pc[p] \in {"a_check", "a_ret"} /\ pc'[p] = "idle" /\ res'[p] = "ok")
         => /\ taken[p] = 1 + attempts[p]
            /\ (attempts[p] = 1 /\ chCap[limiterChan] = 1) => sinceAdm[p]]_vars

\* C20: once Close has closed the Permit Pool, no acquire that was blocked on
\* the pool at that moment or was issued afterwards returns nil.
C20_NoAdmissionAfterClose ==
  [][\A p \in Callers : AdmittedStep(p) => ~postClose[p]]_vars

====
